---- MODULE Spec2Model ----
(***************************************************************************)
(* Study tool.  Backend: the heuristic generators (textSummary,            *)
(* generateFlashcards, generateQuiz), the upload and the summarize /       *)
(* flashcards / quiz handlers of backend/src/routes/api.js, of             *)
(* backend/src/index.js and of the older router, and the AI delegate       *)
(* backend/src/services/ai.js.  Frontend: the page src/pages/Index.tsx.    *)
(*                                                                         *)
(* A JavaScript string is a sequence of one-character strings.  A JSON     *)
(* value of a request body is a record tagged by t: "undefined" (the key   *)
(* is absent), "num" (the number h/2, kept in half units so that           *)
(* fractional counts are values of the model), "nan", or "str".            *)
(***************************************************************************)
EXTENDS Integers, Sequences, FiniteSets, Bags, TLC

VARIABLES impl, env, dotenvFile, aiVersion, pc, req, resp, ai, heuristicCalls, remoteCalls

\* The state of the page src/pages/Index.tsx: its useState values, the progress
\* of handleGenerate and the requests it has sent since the last click.
VARIABLES selectedFiles, selectedTool, loading, error, summary, flashcards, quiz,
          documentSources, run, fetched

pageVars ==
    <<selectedFiles, selectedTool, loading, error, summary, flashcards, quiz,
      documentSources, run, fetched>>

serverVars ==
    <<impl, env, dotenvFile, aiVersion, pc, req, resp, ai, heuristicCalls, remoteCalls>>

vars == <<serverVars, pageVars>>

(***************************************************************************)
(* Characters and character classes of the regular expressions.            *)
(***************************************************************************)
NL == "\n"

Whitespace == {" ", NL, "\t"}

Terminal == {".", "!", "?"}

UpperCase == <<"A","B","C","D","E","F","G","H","I","J","K","L","M",
               "N","O","P","Q","R","S","T","U","V","W","X","Y","Z">>

LowerCase == <<"a","b","c","d","e","f","g","h","i","j","k","l","m",
               "n","o","p","q","r","s","t","u","v","w","x","y","z">>

Digits == <<"0","1","2","3","4","5","6","7","8","9">>

Range(f) == {f[i] : i \in DOMAIN f}

\* The class [a-z0-9-] under the flags gi.
AlnumHyphen == Range(UpperCase) \cup Range(LowerCase) \cup Range(Digits) \cup {"-"}

Min(a, b) == IF a <= b THEN a ELSE b

Max(a, b) == IF a >= b THEN a ELSE b

(***************************************************************************)
(* String.prototype and Array.prototype operations used by the generators. *)
(***************************************************************************)
\* s.toLowerCase()
LowerOf == [c \in Range(UpperCase) |->
               LowerCase[CHOOSE i \in DOMAIN UpperCase : UpperCase[i] = c]]

LowerChar(c) == IF c \in DOMAIN LowerOf THEN LowerOf[c] ELSE c

toLowerCase(s) == [i \in 1..Len(s) |-> LowerChar(s[i])]

\* s.includes(sub)
includes(s, sub) ==
    \E i \in 1..(Len(s) - Len(sub) + 1) :
        \A k \in 1..Len(sub) : s[i + k - 1] = sub[k]

\* The index a relative slice bound resolves to, for a sequence of length n.
SliceBound(k, n) == IF k < 0 THEN Max(n + k, 0) ELSE Min(k, n)

\* s.slice(a, b) of a string or an array, a and b integers
slice(s, a, b) ==
    LET from == SliceBound(a, Len(s))
        to   == SliceBound(b, Len(s))
    IN  IF from < to THEN SubSeq(s, from + 1, to) ELSE <<>>

\* arr.join(sep)
RECURSIVE join(_, _)
join(arr, sep) ==
    IF Len(arr) = 0 THEN <<>>
    ELSE IF Len(arr) = 1 THEN arr[1]
    ELSE arr[1] \o sep \o join(Tail(arr), sep)

\* The last index of the maximal run of characters of class C that starts at i.
RunEnd(s, C, i) ==
    CHOOSE j \in i..Len(s) :
        /\ \A k \in i..j : s[k] \in C
        /\ j = Len(s) \/ s[j + 1] \notin C

\* The matches <<first, last>> of the regular expression C+ in s; with
\* afterTerminal, of (?<=[.!?])C+ : a run counts only where it follows a
\* sentence terminal.
RunMatches(s, C, afterTerminal) ==
    { <<i, RunEnd(s, C, i)>> : i \in
        { i \in 1..Len(s) :
            /\ s[i] \in C
            /\ i = 1 \/ s[i - 1] \notin C
            /\ afterTerminal => (i > 1 /\ s[i - 1] \in Terminal) } }

\* The matches of the one-character class C (no repetition): /[\n.]/
CharMatches(s, C) == { <<i, i>> : i \in { i \in 1..Len(s) : s[i] \in C } }

\* The leftmost non-overlapping occurrences of the literal separator sep from p on.
RECURSIVE LiteralMatches(_, _, _)
LiteralMatches(s, sep, p) ==
    LET occ == { i \in p..(Len(s) - Len(sep) + 1) : SubSeq(s, i, i + Len(sep) - 1) = sep }
    IN  IF occ = {} THEN {}
        ELSE LET i == CHOOSE x \in occ : \A y \in occ : x <= y
             IN  {<<i, i + Len(sep) - 1>>} \cup LiteralMatches(s, sep, i + Len(sep))

\* s.split(separator): the pieces of s between the matches M, from position p on.
\* A match at either end of s leaves an empty piece there, as in JavaScript.
RECURSIVE SplitFrom(_, _, _)
SplitFrom(s, M, p) ==
    LET rest == { m \in M : m[1] >= p }
    IN  IF rest = {} THEN <<SubSeq(s, p, Len(s))>>
        ELSE LET m == CHOOSE x \in rest : \A y \in rest : x[1] <= y[1]
             IN  <<SubSeq(s, p, m[1] - 1)>> \o SplitFrom(s, M, m[2] + 1)

\* text.split(/(?<=[.!?])\s+/)
splitSentences(s) == SplitFrom(s, RunMatches(s, Whitespace, TRUE), 1)

\* s.split(/\s+/)
splitWhitespace(s) == SplitFrom(s, RunMatches(s, Whitespace, FALSE), 1)

\* text.split(/\n+/)
splitNewlines(s) == SplitFrom(s, RunMatches(s, {NL}, FALSE), 1)

\* text.split(/[\n.]/)
splitNewlineOrDot(s) == SplitFrom(s, CharMatches(s, {NL, "."}), 1)

\* s.split(sep) for a literal, non-empty separator
splitLiteral(s, sep) == SplitFrom(s, LiteralMatches(s, sep, 1), 1)

\* s.replace(/C+/g, ' ')
replaceRuns(s, C) ==
    LET idx  == [i \in 1..Len(s) |-> i]
        kept == SelectSeq(idx, LAMBDA i : s[i] \notin C \/ i = 1 \/ s[i - 1] \notin C)
    IN  [k \in 1..Len(kept) |-> IF s[kept[k]] \in C THEN " " ELSE s[kept[k]]]

\* s.replace(/[^a-z0-9-]/gi, '')
stripNonAlnum(s) == SelectSeq(s, LAMBDA c : c \in AlnumHyphen)

\* s.trim()
trim(s) ==
    LET solid == { i \in 1..Len(s) : s[i] \notin Whitespace }
    IN  IF solid = {} THEN <<>>
        ELSE SubSeq(s, CHOOSE i \in solid : \A j \in solid : i <= j,
                       CHOOSE i \in solid : \A j \in solid : i >= j)


(***************************************************************************)
(* JavaScript values and the coercions the handlers and generators apply.  *)
(***************************************************************************)
Undefined == [t |-> "undefined"]

NaN == [t |-> "nan"]

\* The number h/2.
Half(h) == [t |-> "num", h |-> h]

\* The whole number n.
Whole(n) == Half(n + n)

Str(s) == [t |-> "str", s |-> s]

\* The value of a string of decimal digits.
RECURSIVE DigitsValue(_)
DigitsValue(s) ==
    IF Len(s) = 0 THEN 0
    ELSE 10 * DigitsValue(SubSeq(s, 1, Len(s) - 1))
         + (CHOOSE i \in DOMAIN Digits : Digits[i] = s[Len(s)]) - 1

\* Number(v), and the implicit ToNumber of a relational operator
Number(v) ==
    CASE v.t = "num" -> v
      [] v.t = "str" -> IF \A i \in 1..Len(v.s) : v.s[i] \in Range(Digits)
                        THEN Whole(DigitsValue(v.s)) ELSE NaN
      [] OTHER -> NaN

\* ToBoolean(v)
Truthy(v) ==
    CASE v.t = "num" -> v.h # 0
      [] v.t = "str" -> Len(v.s) > 0
      [] OTHER -> FALSE

\* a || b
OrElse(a, b) == IF Truthy(a) THEN a ELSE b

\* A destructuring default: { key = d } = body
Default(v, d) == IF v = Undefined THEN d ELSE v

\* Math.min(a, b)
MathMin(a, b) ==
    IF a.t = "nan" \/ b.t = "nan" THEN NaN ELSE Half(Min(a.h, b.h))

\* n <= v, n < v, n >= v for an array length n: false when v is not a number
LengthLE(n, v) == Number(v).t = "num" /\ 2 * n <= Number(v).h

LengthLT(n, v) == Number(v).t = "num" /\ 2 * n < Number(v).h

LengthGE(n, v) == Number(v).t = "num" /\ 2 * n >= Number(v).h

\* ToIntegerOrInfinity(v): NaN becomes 0, a fraction is truncated towards 0
ToInteger(v) ==
    LET n == Number(v)
    IN  IF n.t # "num" THEN 0
        ELSE IF n.h >= 0 THEN n.h \div 2 ELSE -((-n.h) \div 2)

\* arr.slice(0, count)
sliceTo(arr, count) == slice(arr, 0, ToInteger(count))

(***************************************************************************)
(* Literal strings of the source.                                          *)
(***************************************************************************)
keywords == <<
    <<"i","m","p","o","r","t","a","n","t">>,
    <<"k","e","y">>,
    <<"m","a","i","n">>,
    <<"s","u","m","m","a","r","y">>,
    <<"t","h","e","r","e","f","o","r","e">>,
    <<"b","e","c","a","u","s","e">>>>

Ellipsis == <<"...">>

Blank == <<"_","_","_","_">>

Space == <<" ">>

Colon == <<":">>

IsSep == <<" ","i","s"," ">>

Concept == <<"c","o","n","c","e","p","t">>

Process == <<"p","r","o","c","e","s","s">>

Theory == <<"t","h","e","o","r","y">>

Model == <<"m","o","d","e","l">>

(***************************************************************************)
(* textSummary                                                             *)
(***************************************************************************)
\* sortDescending with equal scores in the reverse of their original order.
sortDescendingUnstable(score) ==
    LET n == Len(score)
        rank(i) == 1 + Cardinality({ j \in 1..n :
                        score[j] > score[i] \/ (score[j] = score[i] /\ j > i) })
    IN  [r \in 1..n |-> CHOOSE i \in 1..n : rank(i) = r]

\* The positions of arr in the order of arr.sort((a, b) => b.score - a.score):
\* descending score, equal scores in their original order (the sort is stable).
sortDescending(score) ==
    LET n == Len(score)
        rank(i) == 1 + Cardinality({ j \in 1..n :
                        score[j] > score[i] \/ (score[j] = score[i] /\ j < i) })
    IN  [r \in 1..n |-> CHOOSE i \in 1..n : rank(i) = r]

\* routes/api.js: lenScore + kwScore + posScore of the sentence at index i - 1,
\* as the exact rational score * 200 * n.
scoreApi(sentences, i) ==
    LET n  == Len(sentences)
        s  == sentences[i]
        kw == Cardinality({ k \in DOMAIN keywords : includes(toLowerCase(s), keywords[k]) })
    IN  Min(Len(s), 200) * n + 100 * kw * n + 200 * (n - (i - 1))

\* index.js: s.length / 200 + (1 - idx / sentences.length), times 200 * n.
scoreIndex(sentences, i) ==
    LET n == Len(sentences)
    IN  Len(sentences[i]) * n + 200 * (n - (i - 1))

\* summarySentencesApi with the boundary test written < instead of <= .
summarySentencesApiStrict(text, maxSentences) ==
    IF Len(text) = 0 THEN <<>>
    ELSE LET sentences == SelectSeq(splitSentences(replaceRuns(text, {NL})),
                                 LAMBDA s : Len(s) > 0)
         IN  IF LengthLT(Len(sentences), maxSentences) THEN sentences
             ELSE LET score  == [i \in 1..Len(sentences) |-> scoreApi(sentences, i)]
                      order  == sortDescending(score)
                      scored == [r \in 1..Len(sentences) |-> sentences[order[r]]]
                  IN  sliceTo(scored, maxSentences)

\* routes/api.js: the sentences textSummary joins.
summarySentencesApi(text, maxSentences) ==
    IF Len(text) = 0 THEN <<>>
    ELSE LET sentences == SelectSeq(splitSentences(replaceRuns(text, {NL})),
                                 LAMBDA s : Len(s) > 0)
         IN  IF LengthLE(Len(sentences), maxSentences) THEN sentences
             ELSE LET score  == [i \in 1..Len(sentences) |-> scoreApi(sentences, i)]
                      order  == sortDescending(score)
                      scored == [r \in 1..Len(sentences) |-> sentences[order[r]]]
                  IN  sliceTo(scored, maxSentences)

\* index.js: the sentences textSummary joins.
summarySentencesIndex(text, maxSentences) ==
    IF Len(text) = 0 THEN <<>>
    ELSE LET sentences == SelectSeq(splitSentences(replaceRuns(text, Whitespace)),
                                 LAMBDA s : Len(s) > 20)
         IN  IF LengthLE(Len(sentences), maxSentences) THEN sentences
             ELSE LET score  == [i \in 1..Len(sentences) |-> scoreIndex(sentences, i)]
                      order  == sortDescending(score)
                      scored == [r \in 1..Len(sentences) |-> sentences[order[r]]]
                  IN  sliceTo(scored, maxSentences)

\* The older router (part_002): the sentences longer than 20 characters, the
\* first maxSentences of them in source order.
summarySentencesLegacy(text, maxSentences) ==
    IF Len(text) = 0 THEN <<>>
    ELSE LET sentences == SelectSeq(splitSentences(text), LAMBDA s : Len(s) > 20)
         IN  IF LengthLE(Len(sentences), maxSentences) THEN sentences
             ELSE sliceTo(sentences, maxSentences)

textSummaryApi(text, maxSentences) == join(summarySentencesApi(text, maxSentences), Space)

textSummaryIndex(text, maxSentences) == join(summarySentencesIndex(text, maxSentences), Space)

(***************************************************************************)
(* generateFlashcards                                                      *)
(***************************************************************************)
Card(q, a) == [question |-> q, answer |-> a]

\* arr.map(l => l.trim()).filter(Boolean)
trimmedNonEmpty(arr) ==
    SelectSeq([i \in 1..Len(arr) |-> trim(arr[i])], LAMBDA l : Len(l) > 0)

\* routes/api.js: the card of line l.
lineCardApi(l) ==
    Card(<<"W","h","a","t"," ","i","s"," ","m","e","a","n","t"," ","b","y",":"," ","\"">> \o slice(splitLiteral(l, Colon)[1], 0, 80)
            \o <<"\"","?">>,
         IF Len(l) > 120 THEN slice(l, 0, 200) \o Ellipsis ELSE l)

\* routes/api.js: the for loop over chunks, from index i - 1 on.
RECURSIVE lineLoopApi(_, _, _, _)
lineLoopApi(chunks, i, cards, count) ==
    IF ~(i <= Len(chunks) /\ LengthLT(Len(cards), count)) THEN cards
    ELSE IF Len(chunks[i]) < 20 THEN lineLoopApi(chunks, i + 1, cards, count)
    ELSE lineLoopApi(chunks, i + 1, Append(cards, lineCardApi(chunks[i])), count)

\* routes/api.js: the fallback while loop. count is a positive number inside the
\* loop; start is floor(cards.length / count * text.length), in exact arithmetic.
RECURSIVE fallbackLoopApi(_, _, _)
fallbackLoopApi(text, cards, count) ==
    IF ~(LengthLT(Len(cards), count) /\ Len(text) > 0) THEN cards
    ELSE LET start == (2 * Len(cards) * Len(text)) \div Number(count).h
             snip  == slice(text, start, start + 180)
         IN  fallbackLoopApi(text,
                 Append(cards, Card(<<"E","x","p","l","a","i","n"," ","t","h","e"," ","f","o","l","l","o","w","i","n","g"," ","c","o","n","c","e","p","t",":">>,
                                    snip \o Ellipsis)),
                 count)

\* generateFlashcardsApi returning cards instead of cards.slice(0, count).
generateFlashcardsApiUnsliced(text, count) ==
    LET lines  == trimmedNonEmpty(splitNewlines(text))
        chunks == slice(lines, 0, 200)
        cards  == lineLoopApi(chunks, 1, <<>>, count)
    IN  fallbackLoopApi(text, cards, count)

generateFlashcardsApi(text, count) ==
    LET lines  == trimmedNonEmpty(splitNewlines(text))
        chunks == slice(lines, 0, 200)
        cards  == lineLoopApi(chunks, 1, <<>>, count)
    IN  sliceTo(fallbackLoopApi(text, cards, count), count)

\* index.js: what one line adds to cards.
lineCardsIndex(line) ==
    LET parts == splitLiteral(line, Colon)
        first == parts[1]
        rest  == Tail(parts)
    IN  IF Len(rest) > 0
        THEN <<Card(<<"W","h","a","t"," ","i","s"," ","\"">> \o trim(first) \o <<"\"","?">>,
                    trim(join(rest, Colon)))>>
        ELSE IF includes(line, IsSep)
        THEN LET pieces  == splitLiteral(line, IsSep)
                 subject == pieces[1]
                 def     == pieces[2]
             IN  IF Len(subject) > 0 /\ Len(def) > 0
                 THEN <<Card(<<"W","h","a","t"," ","i","s"," ">> \o trim(subject) \o <<"?">>, trim(def))>>
                 ELSE <<>>
        ELSE <<>>

\* index.js: the for loop over lines, from line i on.
RECURSIVE lineLoopIndex(_, _, _, _)
lineLoopIndex(lines, i, cards, count) ==
    IF i > Len(lines) \/ LengthGE(Len(cards), count) THEN cards
    ELSE IF Len(lines[i]) < 30 THEN lineLoopIndex(lines, i + 1, cards, count)
    ELSE lineLoopIndex(lines, i + 1, cards \o lineCardsIndex(lines[i]), count)

\* Math.random() takes RandLevels values k / RandLevels, k in 0..RandLevels - 1; the
\* draws of one request follow each other cyclically from the request's seed.
RandLevels == 2

randomLevel(seed, draw) == (seed + draw) % RandLevels

\* index.js: the fallback while loop; draw counts the calls of Math.random().
\* idx is Math.floor(Math.random() * (text.length - 120)).
RECURSIVE fallbackLoopIndex(_, _, _, _, _)
fallbackLoopIndex(text, cards, count, seed, draw) ==
    IF ~(LengthLT(Len(cards), count) /\ Len(text) > 0) THEN cards
    ELSE LET idx == (randomLevel(seed, draw) * (Len(text) - 120)) \div RandLevels
         IN  fallbackLoopIndex(text,
                 Append(cards, Card(<<"E","x","p","l","a","i","n"," ","t","h","i","s"," ","s","n","i","p","p","e","t",":">>,
                                    slice(text, idx, idx + 120) \o Ellipsis)),
                 count, seed, draw + 1)

generateFlashcardsIndex(text, count, seed) ==
    LET lines == trimmedNonEmpty(splitNewlineOrDot(text))
        cards == lineLoopIndex(lines, 1, <<>>, count)
    IN  sliceTo(fallbackLoopIndex(text, cards, count, seed, 0), count)

(***************************************************************************)
(* generateQuiz                                                            *)
(***************************************************************************)
\* shuffle(arr), and arr.sort(() => Math.random() - 0.5): some permutation of
\* arr.  The order is the only thing the random comparator decides, so the
\* model keeps what every permutation shares, the bag of the elements.
shuffle(arr) ==
    LET elems == Range(arr)
    IN  [e \in elems |-> Cardinality({ i \in DOMAIN arr : arr[i] = e })]

\* arr.SelectSeq((v, i, arr) => arr.indexOf(v) === i)
dedupe(arr) ==
    LET idx  == [i \in 1..Len(arr) |-> i]
        kept == SelectSeq(idx, LAMBDA i : \A j \in 1..(i - 1) : arr[j] # arr[i])
    IN  [k \in 1..Len(kept) |-> arr[kept[k]]]

QuizItem(q, o, a) == [question |-> q, options |-> o, answer |-> a]

\* prompt[idx] = '____'; prompt.join(' ')   (i = idx + 1)
maskedQuestion(words, i) ==
    join([k \in 1..Len(words) |-> IF k = i THEN Blank ELSE words[k]], Space)

\* distractorsApi with a pool of three generic words instead of four.
distractorsApiShortPool(answer) ==
    slice(dedupe(<<answer, Concept, Process, Theory>>), 0, 4)

\* routes/api.js: the options of an item, before shuffle.
distractorsApi(answer) ==
    slice(dedupe(<<answer, Concept, Process, Theory, Model>>), 0, 4)

\* index.js: the options of an item, before the random sort.
distractorsIndex(answer) == <<Concept, Process, Model, answer>>

\* sentenceItemsApi without the test of the answer.
sentenceItemsApiUnchecked(s) ==
    LET words == splitWhitespace(s)
    IN  IF Len(words) < 6 THEN <<>>
        ELSE LET idx    == Max(3, Min(Len(words) - 2, Len(words) \div 2))
                 answer == stripNonAlnum(words[idx + 1])
             IN  <<QuizItem(maskedQuestion(words, idx + 1),
                            shuffle(distractorsApi(answer)), answer)>>

\* routes/api.js: what sentence s adds to qs.
sentenceItemsApi(s) ==
    LET words == splitWhitespace(s)
    IN  IF Len(words) < 6 THEN <<>>
        ELSE LET idx    == Max(3, Min(Len(words) - 2, Len(words) \div 2))
                 answer == stripNonAlnum(words[idx + 1])
             IN  IF Len(answer) = 0 THEN <<>>
                 ELSE <<QuizItem(maskedQuestion(words, idx + 1),
                                 shuffle(distractorsApi(answer)), answer)>>

RECURSIVE quizLoopApi(_, _, _, _)
quizLoopApi(sentences, i, qs, count) ==
    IF ~(i <= Len(sentences) /\ LengthLT(Len(qs), count)) THEN qs
    ELSE quizLoopApi(sentences, i + 1, qs \o sentenceItemsApi(sentences[i]), count)

generateQuizApi(text, count) ==
    quizLoopApi(SelectSeq(splitSentences(text), LAMBDA s : Len(s) > 40), 1, <<>>, count)

\* index.js: the values of Math.floor(n / 3 + Math.random() * n / 3) for the
\* random numbers of [0, 1): the integers of the interval [n/3, 2n/3).
maskIndexes(n) == { k \in 0..n : 3 * (k + 1) > n /\ 3 * k < 2 * n }

\* index.js: what sentence s adds to qs when the random mask index is idx.
sentenceItemsIndex(s, idx) ==
    LET words  == splitWhitespace(s)
        answer == stripNonAlnum(words[idx + 1])
    IN  IF Len(answer) = 0 THEN <<>>
        ELSE <<QuizItem(maskedQuestion(words, idx + 1),
                        shuffle(distractorsIndex(answer)), answer)>>

\* index.js: every qs the for loop can end with, from sentence i on.
RECURSIVE quizLoopIndex(_, _, _, _)
quizLoopIndex(sentences, i, qs, count) ==
    IF i > Len(sentences) \/ LengthGE(Len(qs), count) THEN {qs}
    ELSE UNION { quizLoopIndex(sentences, i + 1,
                               qs \o sentenceItemsIndex(sentences[i], idx), count) :
                 idx \in maskIndexes(Len(splitWhitespace(sentences[i]))) }

\* index.js: the set of results generateQuiz can return.
generateQuizIndex(text, count) ==
    quizLoopIndex(SelectSeq(splitSentences(text),
                         LAMBDA s : Len(splitLiteral(s, Space)) > 6),
                  1, <<>>, count)

(***************************************************************************)
(* services/ai.js                                                          *)
(***************************************************************************)
\* The two versions of services/ai.js.
AiVersions == {1, 2}

\* chunkText(text, maxLen = 6000)
ChunkLen == 6000

chunkText(text, maxLen) ==
    [c \in 1..((Len(text) + maxLen - 1) \div maxLen) |->
        slice(text, (c - 1) * maxLen, c * maxLen)]

\* The content of a completion, res.choices[0]?.message?.content: absent or
\* empty, text that is not JSON, the JSON values null, a string, a number, an
\* array, an object without the expected field, an object whose field is not an
\* array, and an object of the expected shape.
Contents ==
    {"absent", "garbage", "null", "string", "number", "array", "object",
     "nonArrayField", "valid"}

\* The items of a completion of the expected shape.
ValidItems == << <<"item">> >>

\* aiSummarize: content?.trim() || '' for the completion of the call-th remote
\* call of the request, whose text, when it has one, names the call.
summaryOf(content, call) ==
    IF content = "absent" THEN <<>> ELSE <<"summary", Digits[call + 1]>>

\* aiSummarize returning the combining call's content as it is.
finalSummaryAsIs(content, call, partials) == summaryOf(content, call)

\* aiSummarize: final.choices[0]?.message?.content?.trim() || combined, where
\* combined is partials.join('\n').
finalSummary(content, call, partials) ==
    IF Len(summaryOf(content, call)) > 0 THEN summaryOf(content, call)
    ELSE join(partials, <<NL>>)

\* First version: JSON.parse inside try/catch, `if (!Array.isArray(parsed.cards))
\* parsed.cards = []` after it.  Reading a property of null throws; so does
\* assigning a property of a string or number in module (strict) code.
parseCompletionV1(content) ==
    CASE content \in {"null", "string", "number"} -> [threw |-> TRUE, items |-> <<>>]
      [] content = "valid" -> [threw |-> FALSE, items |-> ValidItems]
      [] OTHER -> [threw |-> FALSE, items |-> <<>>]

\* Second version: parse, test and assignment all inside try; catch returns the
\* empty collection.
parseCompletionV2(content) ==
    CASE content = "valid" -> [threw |-> FALSE, items |-> ValidItems]
      [] OTHER -> [threw |-> FALSE, items |-> <<>>]

parseCompletion(content) ==
    IF aiVersion = 1 THEN parseCompletionV1(content) ELSE parseCompletionV2(content)

\* The delegate's progress for the request: the phase of the AI call, the number
\* of chunks of the text, the partial summaries obtained, the content of the
\* combining call, whether the parsed
\* completion was not of the expected shape, the content whose handling threw,
\* and the number of remote calls made when one failed.
NoAI ==
    [phase |-> "none", chunks |-> 0, partials |-> <<>>, final |-> <<>>,
     malformed |-> FALSE, error |-> "none", failedAt |-> 0]

(***************************************************************************)
(* Requests.  A text is up to MaxSegs sentences of the endpoint's pool,    *)
(* joined by one space or by one newline; a count is absent, a non-numeric *)
(* string, or a multiple of 1/2 from -1 to MaxHalf / 2.                    *)
(***************************************************************************)
MaxSegs == 2

MaxHalf == 4

CatSat ==
    <<"T","h","e"," ","c","a","t"," ","s","a","t",".">>

SunWarm ==
    <<"I","t"," ","w","a","s"," ","i","m","p","o","r","t","a","n","t"," ","b","e","c","a","u","s","e"," ","t","h","e"," ","s","u","n"," ","w","a","s"," ","w","a","r","m",".">>

MainKey ==
    <<"T","h","e","r","e","f","o","r","e"," ","t","h","e"," ","m","a","i","n"," ","k","e","y"," ","i","s"," ","t","h","a","t"," ","i","t"," ","i","s"," ","w","a","r","m",".">>

Photosynthesis ==
    <<"P","h","o","t","o","s","y","n","t","h","e","s","i","s",":"," ","p","l","a","n","t","s"," ","c","o","n","v","e","r","t"," ","l","i","g","h","t"," ","i","n","t","o"," ","e","n","e","r","g","y",".">>

FollowingItems ==
    <<"T","h","e"," ","f","o","l","l","o","w","i","n","g"," ","i","t","e","m","s"," ","a","r","e"," ","i","m","p","o","r","t","a","n","t"," ","t","o"," ","k","n","o","w",":">>

ConceptChapter ==
    <<"I","n"," ","t","h","i","s"," ","c","h","a","p","t","e","r"," ","t","h","e"," ","c","o","n","c","e","p","t"," ","i","s"," ","d","e","s","c","r","i","b","e","d"," ","i","n"," ","d","e","t","a","i","l",".">>

FillBlank ==
    <<"F","i","l","l"," ","i","n"," ","t","h","e"," ","_","_","_","_"," ","w","i","t","h"," ","t","h","e"," ","m","i","s","s","i","n","g"," ","w","o","r","d"," ","f","r","o","m"," ","t","h","e"," ","l","i","s","t",".">>

PlantsNeed ==
    <<"P","l","a","n","t","s"," ","n","e","e","d"," ","w","a","t","e","r"," ","l","i","g","h","t"," ","&"," ","c","a","r","b","o","n"," ","d","i","o","x","i","d","e"," ","t","o"," ","g","r","o","w",".">>

Pool(endpoint) ==
    CASE endpoint = "summarize"  -> {CatSat, SunWarm, MainKey}
      [] endpoint = "flashcards" -> {CatSat, Photosynthesis, FollowingItems, ConceptChapter}
      [] endpoint = "quiz"       -> {CatSat, ConceptChapter, FillBlank, PlantsNeed}

Separators == {Space, <<NL>>}

Texts(endpoint) ==
    { join(segs, sep) :
        segs \in UNION { [1..k -> Pool(endpoint)] : k \in 0..MaxSegs },
        sep \in Separators }

Endpoints == {"summarize", "flashcards", "quiz"}

\* A text one character longer than a chunk of aiSummarize.
LongText == [i \in 1..(ChunkLen + 1) |-> "a"]

\* l.slice(0, 200) of routes/api.js, the longest excerpt of a line.
ExcerptLen == 200

\* A line with a colon whose remainder is longer than the longest excerpt.
LongDefinition ==
    <<"P","h","o","t","o","s","y","n","t","h","e","s","i","s",":"," ">>
        \o [i \in 1..(ExcerptLen + 50) |-> "a"]

\* A line with a colon, longer than the 120 characters from which routes/api.js
\* cuts an excerpt and shorter than the excerpt.
MediumDefinition ==
    <<"P","h","o","t","o","s","y","n","t","h","e","s","i","s",":"," ">>
        \o [i \in 1..(ExcerptLen - 50) |-> "a"]

\* The `text` of a body: absent, a number, or a string (the empty one among
\* them); for the flashcards also the two long lines and a sentence with
\* neither a colon nor ' is '.
TextValues(endpoint) ==
    {Undefined, Whole(7)} \cup { Str(s) : s \in Texts(endpoint) }
        \cup (IF endpoint = "flashcards"
              THEN {Str(LongDefinition), Str(MediumDefinition), Str(PlantsNeed)} ELSE {})

\* Bodies for the AI delegate: a text of one chunk and one of two chunks, with
\* the default count or one requested item.
LongTextValues == {Str(CatSat), Str(LongText)}

FewCountValues == {Undefined, Whole(1)}

\* Math.min(10, ...) of /summarize, Math.min(20, ...) of /flashcards and
\* Math.min(10, ...) of /quiz.
MaxSentences == 10

MaxCards == 20

MaxQuestions == 10

\* The `sentences` or `count` of a body; the last one exceeds every limit.
CountValues ==
    {Undefined, Str(<<"a", "b", "c">>)} \cup { Half(h) : h \in (-2)..MaxHalf }
        \cup {Whole(MaxCards + 1)}

Envs == [OPENAI_API_KEY : BOOLEAN, OPENROUTER_API_KEY : BOOLEAN]

\* The routes/api.js router, the index.js app and the older router.
Impls == {"api", "index", "legacy"}

None == [t |-> "none"]

\* What multer hands to the upload callback: no error, a MulterError with code
\* LIMIT_FILE_SIZE, a MulterError with another code, or another Error.
MulterOutcomes == {"none", "LIMIT_FILE_SIZE", "LIMIT_UNEXPECTED_FILE", "Error"}

MimeTypes ==
    {"application/pdf",
     "application/vnd.openxmlformats-officedocument.wordprocessingml.document",
     "text/plain", "application/octet-stream"}

Extensions == {"pdf", "docx", "txt", "md", "bin"}

\* req.file: undefined, or a file with its type, its extension and whether its
\* bytes are a document the extraction library can read.
NoFile == [mimetype |-> "none", ext |-> "none", readable |-> FALSE]

Files ==
    {NoFile} \cup [mimetype : MimeTypes, ext : Extensions, readable : BOOLEAN]

\* An upload: multer's outcome and req.file, which multer sets only without error.
NoUpload == [err |-> "none", file |-> NoFile]

Uploads ==
    { [err |-> e, file |-> f] : e \in MulterOutcomes, f \in Files }
        \ { u \in [err : MulterOutcomes, file : Files] : u.err # "none" /\ u.file # NoFile }

NoRequest == [endpoint |-> "none", text |-> Undefined, count |-> Undefined, upload |-> NoUpload]

\* A response: the status, who produced the body ("heuristic", "ai" or "none"),
\* and the body's summary, cards or quiz.  sentences is the array textSummary
\* joined; handed is the count the handler gave the generator.
Response(status, source, handed, sentences, text, cards, items) ==
    [status |-> status, source |-> source, handed |-> handed,
     sentences |-> sentences, summary |-> text, cards |-> cards, quiz |-> items,
     text |-> <<>>, textLength |-> 0]

NoResponse == Response(0, "none", None, <<>>, <<>>, <<>>, <<>>)

ErrorResponse(status) == Response(status, "none", None, <<>>, <<>>, <<>>, <<>>)

(***************************************************************************)
(* The handlers.                                                           *)
(***************************************************************************)
\* process.env when the module services/ai.js is evaluated.  The imports of
\* index.js are evaluated before its body, so before its dotenv.config(): the
\* first version of services/ai.js sees none of the credentials of the .env
\* file; the second version calls dotenv.config() itself first.
importEnv ==
    IF dotenvFile /\ impl = "index" /\ aiVersion = 1
    THEN [OPENAI_API_KEY |-> FALSE, OPENROUTER_API_KEY |-> FALSE]
    ELSE env

\* services/ai.js: the provider the module selects when it is loaded, OpenRouter
\* before OpenAI; "none" leaves client null.
provider ==
    IF importEnv.OPENROUTER_API_KEY THEN "openrouter"
    ELSE IF importEnv.OPENAI_API_KEY THEN "openai"
    ELSE "none"

\* services/ai.js: client is not null.
clientConfigured == provider # "none"

\* routes/api.js: const useAI = !!process.env.OPENAI_API_KEY
useAIApi == env.OPENAI_API_KEY

\* index.js: process.env.OPENAI_API_KEY || process.env.OPENROUTER_API_KEY
useAIIndex == env.OPENAI_API_KEY \/ env.OPENROUTER_API_KEY

\* The older router: process.env.OPENROUTER_API_KEY || process.env.OPENAI_API_KEY
useAILegacy == env.OPENROUTER_API_KEY \/ env.OPENAI_API_KEY

useAI ==
    CASE impl = "api"    -> useAIApi
      [] impl = "index"  -> useAIIndex
      [] impl = "legacy" -> useAILegacy

\* missingText testing only that the key is present: text === undefined.
missingTextOnlyAbsent(body) == body.text = Undefined

\* if (!text) return res.status(400)...
missingText(body) == ~Truthy(body.text)

\* routes/api.js: Math.min(limit, Number(count) || dflt); index.js: count as it is,
\* after the destructuring default.
handedCount(value, dflt, limit) ==
    IF impl = "api"
    THEN MathMin(Whole(limit), OrElse(Number(Default(value, Whole(dflt))), Whole(dflt)))
    ELSE Default(value, Whole(dflt))

\* null
Null == "null"

\* The files the user can pick, by name (PDF and DOCX pass isValidFile).
FileNames == {"a.pdf", "b.docx"}

\* The most files selected at a time.
MaxFiles == 2

\* The ids of the tools of StudyToolSelector.
Tools == {"flashcards", "summary", "mcqs"}

\* handleGenerate is not running: no files and no tool captured, no upload done.
NoRun == [at |-> "idle", files |-> <<>>, tool |-> Null, sources |-> <<>>, failedAt |-> 0]

\* The page as mounted: the initial values of its useState calls.
InitPage ==
    /\ selectedFiles = <<>>
    /\ selectedTool = Null
    /\ loading = FALSE
    /\ error = Null
    /\ summary = Null
    /\ flashcards = Null
    /\ quiz = Null
    /\ documentSources = <<>>
    /\ run = NoRun
    /\ fetched = <<>>

Init ==
    /\ InitPage
    /\ impl \in Impls
    /\ env \in Envs
    /\ dotenvFile \in BOOLEAN
    /\ dotenvFile => impl = "index" /\ (env.OPENAI_API_KEY \/ env.OPENROUTER_API_KEY)
    /\ aiVersion \in AiVersions
    /\ pc = "idle"
    /\ req = NoRequest
    /\ resp = NoResponse
    /\ ai = NoAI
    /\ heuristicCalls = 0
    /\ remoteCalls = 0

\* The request with this body reaches the handler of the endpoint.
Arrives(endpoint, text, count) ==
    /\ req' = [endpoint |-> endpoint, text |-> text, count |-> count, upload |-> NoUpload]
    /\ pc' = "received"
    /\ resp' = NoResponse
    /\ ai' = NoAI
    /\ heuristicCalls' = 0
    /\ remoteCalls' = 0
    /\ UNCHANGED <<pageVars, impl, env, dotenvFile, aiVersion>>

\* A request reaches the server.
Receive ==
    /\ pc = "idle"
    /\ \E endpoint \in Endpoints :
         \E text \in TextValues(endpoint), count \in CountValues :
            Arrives(endpoint, text, count)

\* A multipart upload reaches the server and multer has processed it.
ReceiveUpload ==
    /\ pc = "idle"
    /\ \E upload \in Uploads :
         req' = [NoRequest EXCEPT !.endpoint = "upload", !.upload = upload]
    /\ pc' = "received"
    /\ resp' = NoResponse
    /\ ai' = NoAI
    /\ heuristicCalls' = 0
    /\ remoteCalls' = 0
    /\ UNCHANGED <<pageVars, impl, env, dotenvFile, aiVersion>>

\* A request for the AI delegate reaches the server.
ReceiveLong ==
    /\ pc = "idle"
    /\ \E endpoint \in Endpoints :
         \E text \in LongTextValues, count \in FewCountValues :
            Arrives(endpoint, text, count)

\* The handler answers 400 before the try block.
Reject ==
    /\ resp' = ErrorResponse(400)
    /\ pc' = "done"
    /\ UNCHANGED <<ai, heuristicCalls, remoteCalls>>

\* The older router without a key: res.status(500), 'No AI key configured'.
NoKeyError ==
    /\ resp' = ErrorResponse(500)
    /\ pc' = "done"
    /\ UNCHANGED <<ai, heuristicCalls, remoteCalls>>

\* The handler's catch block: res.status(500).json({ error }).
Caught ==
    /\ resp' = [resp EXCEPT !.status = 500]
    /\ pc' = "done"

\* The handler awaits the AI delegate: ensureClient throws without a client;
\* otherwise the delegate issues its first remote completion call, for the
\* first chunk of the text (aiSummarize; the combining call when the text has
\* no length and so no chunk) or for the whole text.
CallAI(handed) ==
    /\ UNCHANGED heuristicCalls
    /\ IF ~clientConfigured
       THEN /\ pc' = "done"
            /\ resp' = Response(500, "none", handed, <<>>, <<>>, <<>>, <<>>)
            /\ UNCHANGED <<ai, remoteCalls>>
       ELSE /\ pc' = "awaitAI"
            /\ resp' = Response(0, "none", handed, <<>>, <<>>, <<>>, <<>>)
            /\ remoteCalls' = remoteCalls + 1
            /\ ai' = IF req.endpoint = "summarize"
                     THEN LET chunks == IF req.text.t = "str"
                                        THEN chunkText(req.text.s, ChunkLen)
                                        ELSE <<>>
                          IN  [NoAI EXCEPT !.phase = IF Len(chunks) = 0 THEN "combine"
                                                     ELSE "chunk",
                                           !.chunks = Len(chunks),
                                           !.partials = <<>>]
                     ELSE [NoAI EXCEPT !.phase = "single"]

\* The heuristic generator throws a TypeError at its first use of a text that
\* is not a string (text.replace, text.split); the handler's catch block
\* answers 500.
GeneratorThrows(handed) ==
    /\ resp' = Response(500, "none", handed, <<>>, <<>>, <<>>, <<>>)
    /\ heuristicCalls' = heuristicCalls + 1
    /\ pc' = "done"
    /\ UNCHANGED <<ai, remoteCalls>>

\* The handler answers with the heuristic generator's result.
Answer(handed, sentences, text, cards, items) ==
    /\ resp' = Response(200, "heuristic", handed, sentences, text, cards, items)
    /\ heuristicCalls' = heuristicCalls + 1
    /\ pc' = "done"
    /\ UNCHANGED <<ai, remoteCalls>>

\* POST /summarize (routes/api.js), POST /api/summarize (index.js)
Summarize ==
    /\ pc = "received"
    /\ req.endpoint = "summarize"
    /\ LET handed == handedCount(req.count, 5, MaxSentences)
       IN  IF missingText(req) THEN Reject
           ELSE IF useAI THEN CallAI(handed)
           ELSE IF req.text.t # "str" THEN GeneratorThrows(handed)
           ELSE LET sentences ==
                        CASE impl = "api"    -> summarySentencesApi(req.text.s, handed)
                          [] impl = "index"  -> summarySentencesIndex(req.text.s, handed)
                          [] impl = "legacy" -> summarySentencesLegacy(req.text.s, handed)
                IN  Answer(handed, sentences, join(sentences, Space), <<>>, <<>>)
    /\ UNCHANGED <<pageVars, impl, env, dotenvFile, aiVersion, req>>

\* POST /flashcards (routes/api.js), POST /api/flashcards (index.js)
Flashcards ==
    /\ pc = "received"
    /\ req.endpoint = "flashcards"
    /\ LET handed == handedCount(req.count, 8, MaxCards)
       IN  IF missingText(req) THEN Reject
           ELSE IF useAI THEN CallAI(handed)
           ELSE IF impl = "legacy" THEN NoKeyError
           ELSE IF req.text.t # "str" THEN GeneratorThrows(handed)
           ELSE IF impl = "api"
           THEN Answer(handed, <<>>, <<>>, generateFlashcardsApi(req.text.s, handed), <<>>)
           ELSE \E seed \in 0..(RandLevels - 1) :
                    Answer(handed, <<>>, <<>>,
                           generateFlashcardsIndex(req.text.s, handed, seed), <<>>)
    /\ UNCHANGED <<pageVars, impl, env, dotenvFile, aiVersion, req>>

\* POST /quiz (routes/api.js), POST /api/quiz (index.js)
Quiz ==
    /\ pc = "received"
    /\ req.endpoint = "quiz"
    /\ LET handed == handedCount(req.count, 5, MaxQuestions)
       IN  IF missingText(req) THEN Reject
           ELSE IF useAI THEN CallAI(handed)
           ELSE IF impl = "legacy" THEN NoKeyError
           ELSE IF req.text.t # "str" THEN GeneratorThrows(handed)
           ELSE IF impl = "api"
           THEN Answer(handed, <<>>, <<>>, <<>>, generateQuizApi(req.text.s, handed))
           ELSE \E items \in generateQuizIndex(req.text.s, handed) :
                    Answer(handed, <<>>, <<>>, <<>>, items)
    /\ UNCHANGED <<pageVars, impl, env, dotenvFile, aiVersion, req>>

\* text.slice(0, 20000) of the upload handlers, the longest text an upload returns.
UploadLimit == 20000

\* A document one character longer than the longest text an upload returns.
LongDocument == [i \in 1..(UploadLimit + 1) |-> "a"]

\* buffer.toString('utf-8'): the content of a text file; the Markdown files are
\* the long document.
bufferToString(file) == IF file.ext = "md" THEN LongDocument ELSE <<"t", "x", "t">>

\* extractTextFromFile: the text of a PDF, of a DOCX or of a text file; a throw
\* for a document the library cannot read and for any other type.
extractTextFromFile(file) ==
    IF file.mimetype = "application/pdf" \/ file.ext = "pdf"
    THEN [threw |-> ~file.readable, text |-> <<"p", "d", "f", NL>>]
    ELSE IF \/ file.mimetype =
                 "application/vnd.openxmlformats-officedocument.wordprocessingml.document"
            \/ file.ext = "docx"
    THEN [threw |-> ~file.readable, text |-> <<"d", "o", "c", "x">>]
    ELSE IF file.mimetype = "text/plain" \/ file.ext \in {"txt", "md"}
    THEN [threw |-> FALSE, text |-> bufferToString(file)]
    ELSE [threw |-> TRUE, text |-> <<>>]

\* The status the older router answers to an error of multer.
uploadErrorStatusLegacy(err) == 400

\* uploadErrorStatus without the test of err.code.
uploadErrorStatusAny(err) == 400

\* The status routes/api.js and index.js answer to an error of multer.
uploadErrorStatus(err) == IF err = "LIMIT_FILE_SIZE" THEN 413 ELSE 400

\* uploadBody with the length of the text it returns as textLength.
uploadBodyReturnedLength(text) ==
    [NoResponse EXCEPT !.status = 200,
                       !.textLength = Len(slice(text, 0, UploadLimit)),
                       !.text = slice(text, 0, UploadLimit)]

\* res.json({ textLength: text.length, text: text.slice(0, 20000) })
uploadBody(text) ==
    [NoResponse EXCEPT !.status = 200,
                       !.textLength = Len(text),
                       !.text = slice(text, 0, UploadLimit)]

\* POST /upload (routes/api.js, the older router), POST /api/upload (index.js)
Upload ==
    /\ pc = "received"
    /\ req.endpoint = "upload"
    /\ pc' = "done"
    /\ LET err  == req.upload.err
           file == req.upload.file
       IN  IF err # "none"
           THEN resp' = ErrorResponse(IF impl = "legacy" THEN uploadErrorStatusLegacy(err)
                                      ELSE uploadErrorStatus(err))
           ELSE IF file = NoFile THEN resp' = ErrorResponse(400)
           ELSE LET out == extractTextFromFile(file)
                IN  IF out.threw THEN resp' = ErrorResponse(400)
                    ELSE resp' = uploadBody(out.text)
    /\ UNCHANGED <<pageVars, impl, env, dotenvFile, aiVersion, req, ai, heuristicCalls, remoteCalls>>

\* A remote completion call returns a completion with some content.
\* aiSummarize goes on to the next chunk, then to the call that combines the
\* partial summaries when there are several, then returns; aiFlashcards and
\* aiQuiz parse the content.  The handler answers res.json(...) with the result,
\* or 500 from its catch block when the delegate threw.
AIResolve ==
    /\ pc = "awaitAI"
    /\ \E content \in Contents :
         CASE ai.phase = "chunk" /\ Len(ai.partials) + 1 < ai.chunks ->
                /\ ai' = [ai EXCEPT !.partials = Append(@, summaryOf(content, remoteCalls))]
                /\ remoteCalls' = remoteCalls + 1
                /\ UNCHANGED <<pc, resp>>
           [] ai.phase = "chunk" /\ Len(ai.partials) + 1 = ai.chunks /\ ai.chunks > 1 ->
                /\ ai' = [ai EXCEPT !.partials = Append(@, summaryOf(content, remoteCalls)),
                                    !.phase = "combine"]
                /\ remoteCalls' = remoteCalls + 1
                /\ UNCHANGED <<pc, resp>>
           [] ai.phase = "chunk" /\ Len(ai.partials) + 1 = ai.chunks /\ ai.chunks = 1 ->
                /\ ai' = [ai EXCEPT !.partials = Append(@, summaryOf(content, remoteCalls)),
                                    !.phase = "returned"]
                /\ resp' = [resp EXCEPT !.status = 200, !.source = "ai",
                                        !.summary = summaryOf(content, remoteCalls)]
                /\ pc' = "done"
                /\ UNCHANGED remoteCalls
           [] ai.phase = "combine" ->
                /\ ai' = [ai EXCEPT !.final = summaryOf(content, remoteCalls),
                                    !.phase = "returned"]
                /\ resp' = [resp EXCEPT !.status = 200, !.source = "ai",
                                        !.summary = finalSummary(content, remoteCalls,
                                                                 ai.partials)]
                /\ pc' = "done"
                /\ UNCHANGED remoteCalls
           [] ai.phase = "single" ->
                LET parsed == parseCompletion(content)
                IN  /\ UNCHANGED remoteCalls
                    /\ IF parsed.threw
                       THEN /\ ai' = [ai EXCEPT !.phase = "threw", !.error = content]
                            /\ Caught
                       ELSE /\ ai' = [ai EXCEPT !.phase = "returned",
                                                !.malformed = (content # "valid")]
                            /\ pc' = "done"
                            /\ resp' = IF req.endpoint = "flashcards"
                                       THEN [resp EXCEPT !.status = 200, !.source = "ai",
                                                         !.cards = parsed.items]
                                       ELSE [resp EXCEPT !.status = 200, !.source = "ai",
                                                         !.quiz = parsed.items]
    /\ UNCHANGED <<pageVars, impl, env, dotenvFile, aiVersion, req, heuristicCalls>>

\* AIReject with one retry of the failed call.
AIRejectRetry ==
    /\ pc = "awaitAI"
    /\ IF ai.failedAt = 0
       THEN /\ ai' = [ai EXCEPT !.failedAt = remoteCalls]
            /\ remoteCalls' = remoteCalls + 1
            /\ UNCHANGED <<pc, resp>>
       ELSE /\ ai' = [ai EXCEPT !.phase = "failed"]
            /\ Caught
            /\ UNCHANGED remoteCalls
    /\ UNCHANGED <<pageVars, impl, env, dotenvFile, aiVersion, req, heuristicCalls>>

\* A remote completion call fails: the rejection propagates out of the delegate
\* to the handler's catch block, which answers 500.
AIReject ==
    /\ pc = "awaitAI"
    /\ ai' = [ai EXCEPT !.phase = "failed", !.failedAt = remoteCalls]
    /\ Caught
    /\ UNCHANGED <<pageVars, impl, env, dotenvFile, aiVersion, req, heuristicCalls, remoteCalls>>

\* The response is sent; the server waits for the next request.
Finish ==
    /\ pc = "done"
    /\ pc' = "idle"
    /\ req' = NoRequest
    /\ resp' = NoResponse
    /\ ai' = NoAI
    /\ heuristicCalls' = 0
    /\ remoteCalls' = 0
    /\ UNCHANGED <<pageVars, impl, env, dotenvFile, aiVersion>>

Next ==
    \/ Receive
    \/ ReceiveUpload
    \/ Upload
    \/ Summarize
    \/ Flashcards
    \/ Quiz
    \/ AIResolve
    \/ AIReject
    \/ Finish

Spec == Init /\ [][Next]_vars

\* The server with an OpenAI key, under requests whose text spans one or two
\* chunks of aiSummarize.
NextLong ==
    \/ ReceiveLong
    \/ Summarize
    \/ Flashcards
    \/ Quiz
    \/ AIResolve
    \/ AIReject
    \/ Finish

\* Both routers and the app dispatch to the AI delegate when OPENAI_API_KEY is set.
InitLong == Init /\ env.OPENAI_API_KEY

SpecLong == InitLong /\ [][NextLong]_vars

(***************************************************************************)
(* The page src/pages/Index.tsx.  The user adds and removes files, chooses *)
(* a tool and clicks Generate; handleGenerate runs from one await to the   *)
(* next; a request it awaits resolves with an ok response or fails (a      *)
(* response that is not ok, a rejected fetch, a body that is not JSON).    *)
(***************************************************************************)
\* FileUpload handleChange / handleDrop: onFileSelect([...selectedFiles, ...newFiles])
handleChange ==
    /\ \E k \in 1..(MaxFiles - Len(selectedFiles)) :
         \E newFiles \in [1..k -> FileNames] :
            selectedFiles' = selectedFiles \o newFiles
    /\ UNCHANGED <<selectedTool, loading, error, summary, flashcards, quiz,
                   documentSources, run, fetched, serverVars>>

\* FileUpload removeFile(index): updatedFiles.splice(index, 1)
removeFile ==
    /\ \E index \in 1..Len(selectedFiles) :
         selectedFiles' = SubSeq(selectedFiles, 1, index - 1)
                             \o SubSeq(selectedFiles, index + 1, Len(selectedFiles))
    /\ UNCHANGED <<selectedTool, loading, error, summary, flashcards, quiz,
                   documentSources, run, fetched, serverVars>>

\* StudyToolSelector, rendered when a file is selected: onToolSelect(tool.id)
onToolSelect ==
    /\ Len(selectedFiles) > 0
    /\ \E tool \in Tools : selectedTool' = tool
    /\ UNCHANGED <<selectedFiles, loading, error, summary, flashcards, quiz,
                   documentSources, run, fetched, serverVars>>

\* fetch(`${API_BASE}/api/upload`, ...) for a file
UploadOf(file) == [url |-> "/api/upload", file |-> file]

\* fetch of the endpoint of the tool with the combined text
ToolRequest(tool) ==
    [url  |-> CASE tool = "summary"    -> "/api/summarize"
                [] tool = "flashcards" -> "/api/flashcards"
                [] tool = "mcqs"       -> "/api/quiz",
     file |-> Null]

\* handleGenerate without the resets of the results.
handleGenerateKeeps ==
    /\ Len(selectedFiles) > 0 /\ selectedTool # Null
    /\ ~loading
    /\ loading' = TRUE
    /\ error' = Null
    /\ documentSources' = <<>>
    /\ run' = [NoRun EXCEPT !.at = "upload", !.files = selectedFiles, !.tool = selectedTool]
    /\ fetched' = <<UploadOf(selectedFiles[1])>>
    /\ UNCHANGED <<summary, flashcards, quiz, selectedFiles, selectedTool, serverVars>>

\* A click on Generate, rendered when a file and a tool are selected and enabled
\* when loading is false: handleGenerate up to its first await, the upload of
\* the first file.
handleGenerate ==
    /\ Len(selectedFiles) > 0 /\ selectedTool # Null
    /\ ~loading
    /\ loading' = TRUE
    /\ error' = Null
    /\ summary' = Null
    /\ flashcards' = Null
    /\ quiz' = Null
    /\ documentSources' = <<>>
    /\ run' = [NoRun EXCEPT !.at = "upload", !.files = selectedFiles, !.tool = selectedTool]
    /\ fetched' = <<UploadOf(selectedFiles[1])>>
    /\ UNCHANGED <<selectedFiles, selectedTool, serverVars>>

\* The awaited upload answers ok: sources.push(...), then the next file's
\* upload, or after the last file setDocumentSources(sources) and the request
\* of the tool's endpoint.
UploadResolves ==
    /\ run.at = "upload"
    /\ LET sources == Append(run.sources, run.files[Len(run.sources) + 1])
       IN  IF Len(sources) < Len(run.files)
           THEN /\ run' = [run EXCEPT !.sources = sources]
                /\ fetched' = Append(fetched, UploadOf(run.files[Len(sources) + 1]))
                /\ UNCHANGED documentSources
           ELSE /\ run' = [run EXCEPT !.sources = sources, !.at = "tool"]
                /\ documentSources' = sources
                /\ fetched' = Append(fetched, ToolRequest(run.tool))
    /\ UNCHANGED <<selectedFiles, selectedTool, loading, error, summary, flashcards,
                   quiz, serverVars>>

\* UploadFails going on to the next file instead of throwing.
UploadFailsSkips ==
    /\ run.at = "upload"
    /\ IF Len(run.sources) + 1 < Len(run.files)
       THEN /\ run' = [run EXCEPT !.sources = Append(@, Null)]
            /\ fetched' = Append(fetched, UploadOf(run.files[Len(run.sources) + 2]))
            /\ UNCHANGED <<error, loading>>
       ELSE /\ run' = [run EXCEPT !.at = "idle", !.failedAt = Len(run.sources) + 1]
            /\ error' = "Failed to upload/parse"
            /\ loading' = FALSE
            /\ UNCHANGED fetched
    /\ UNCHANGED <<selectedFiles, selectedTool, summary, flashcards, quiz,
                   documentSources, serverVars>>

\* The awaited upload fails: throw, catch (setError), finally (setLoading(false)).
UploadFails ==
    /\ run.at = "upload"
    /\ run' = [run EXCEPT !.at = "idle", !.failedAt = Len(run.sources) + 1]
    /\ error' = "Failed to upload/parse"
    /\ loading' = FALSE
    /\ UNCHANGED <<selectedFiles, selectedTool, summary, flashcards, quiz,
                   documentSources, fetched, serverVars>>

\* The awaited request of the tool answers ok: the setter of the tool that
\* handleGenerate was called with, then finally (setLoading(false)).
ToolResolves ==
    /\ run.at = "tool"
    /\ run' = [run EXCEPT !.at = "idle"]
    /\ summary' = IF run.tool = "summary" THEN "data.summary" ELSE summary
    /\ flashcards' = IF run.tool = "flashcards" THEN "data.cards" ELSE flashcards
    /\ quiz' = IF run.tool = "mcqs" THEN "data.quiz" ELSE quiz
    /\ loading' = FALSE
    /\ UNCHANGED <<selectedFiles, selectedTool, error, documentSources, fetched,
                   serverVars>>

\* The awaited request of the tool fails: throw, catch, finally.
ToolFails ==
    /\ run.at = "tool"
    /\ run' = [run EXCEPT !.at = "idle"]
    /\ error' = "Failed to generate"
    /\ loading' = FALSE
    /\ UNCHANGED <<selectedFiles, selectedTool, summary, flashcards, quiz,
                   documentSources, fetched, serverVars>>

\* The request handleGenerate awaits settles.
Settles == UploadResolves \/ UploadFails \/ ToolResolves \/ ToolFails

NextPage ==
    \/ handleChange
    \/ removeFile
    \/ onToolSelect
    \/ handleGenerate
    \/ UploadResolves
    \/ UploadFails
    \/ ToolResolves
    \/ ToolFails

\* The page in front of the app of index.js, which serves /api/upload,
\* /api/summarize, /api/flashcards and /api/quiz.
InitFront ==
    /\ InitPage
    /\ impl = "index"
    /\ env = [OPENAI_API_KEY |-> FALSE, OPENROUTER_API_KEY |-> FALSE]
    /\ dotenvFile = FALSE
    /\ aiVersion = 1
    /\ pc = "idle"
    /\ req = NoRequest
    /\ resp = NoResponse
    /\ ai = NoAI
    /\ heuristicCalls = 0
    /\ remoteCalls = 0

\* Every request the page awaits settles: the browser answers or fails it.
SpecFront == InitFront /\ [][NextPage]_vars /\ WF_vars(Settles)

(***************************************************************************)
(* Properties.                                                             *)
(***************************************************************************)
\* The handler has answered the request of the endpoint from its heuristic generator.
HeuristicDone(endpoint) ==
    pc = "done" /\ resp.source = "heuristic" /\ req.endpoint = endpoint

\* n items are at most the count v: 2n <= 2v, where a negative count allows none.
AtMost(n, v) == 2 * n <= Max(Number(v).h, 0)

IsNumber(v) == Number(v).t = "num"

\* The text whose sentences textSummary splits: newlines (routes/api.js) or all
\* whitespace runs (index.js) collapsed to one space, or the text as it is (the
\* older router).
Collapsed(text) ==
    CASE impl = "api"    -> replaceRuns(text, {NL})
      [] impl = "index"  -> replaceRuns(text, Whitespace)
      [] impl = "legacy" -> text

\* The characters of t that separate sentences: the whitespace that follows a
\* sentence terminal, up to the next character that is not whitespace.
Separating(t) ==
    { j \in 1..Len(t) :
        /\ t[j] \in Whitespace
        /\ \E i \in 2..j : /\ t[i - 1] \in Terminal
                           /\ \A k \in i..j : t[k] \in Whitespace }

\* The sentences of t in source order: the maximal stretches of characters that
\* do not separate sentences.
SentencesOf(t) ==
    LET sep    == Separating(t)
        starts == { a \in 1..Len(t) : a \notin sep /\ (a = 1 \/ a - 1 \in sep) }
        end(a) == CHOOSE b \in a..Len(t) :
                      /\ \A k \in a..b : k \notin sep
                      /\ b = Len(t) \/ b + 1 \in sep
        nth(r) == CHOOSE a \in starts : Cardinality({ x \in starts : x < a }) = r - 1
    IN  [r \in 1..Cardinality(starts) |-> SubSeq(t, nth(r), end(nth(r)))]

\* The sentences the implementation keeps: all of them (routes/api.js), those
\* longer than 20 characters (index.js, the older router).
EligibleSentences(text) ==
    IF impl = "api" THEN SentencesOf(Collapsed(text))
    ELSE SelectSeq(SentencesOf(Collapsed(text)), LAMBDA s : Len(s) > 20)

\* C1: for every text and every count N handed to textSummary, zero, negative
\* and fractional counts included, the heuristic summary is the join of at most
\* N sentences (of none when N is negative).
SummaryAtMostN ==
    (HeuristicDone("summarize") /\ IsNumber(resp.handed)) =>
        /\ resp.summary = join(resp.sentences, Space)
        /\ AtMost(Len(resp.sentences), resp.handed)

Occurrences(s, sub) == Cardinality(LiteralMatches(s, sub, 1))

\* The items of a response's quiz, and the cards of a response's cards.
Items == { resp.quiz[i] : i \in DOMAIN resp.quiz }

Cards == { resp.cards[i] : i \in DOMAIN resp.cards }

GenericWords == {Concept, Process, Theory, Model}

\* C4: the answer of every item generateQuiz returns appears exactly once among
\* the item's options, also when the masked word is a generic distractor word.
AnswerOnceInOptions ==
    HeuristicDone("quiz") =>
        \A item \in Items : CopiesIn(item.answer, item.options) = 1

\* C5: every item generateQuiz returns has exactly 4 options, also when the
\* masked word coincides with a word of the distractor pool.
FourOptions ==
    HeuristicDone("quiz") =>
        \A item \in Items : BagCardinality(item.options) = 4

\* C5 witness: routes/api.js has returned an item whose answer is a generic
\* distractor word.
FourOptionsReached ==
    /\ HeuristicDone("quiz")
    /\ impl = "api"
    /\ \E item \in Items : item.answer \in GenericWords

\* C6: the question of every item generateQuiz returns contains the blank
\* placeholder '____' exactly once, also when the sentence already contains it.
OneBlankInQuestion ==
    HeuristicDone("quiz") =>
        \A item \in Items : Occurrences(item.question, Blank) = 1

\* The number of sentences of text that routes/api.js turns into an item: longer
\* than 40 characters, at least 6 words, a masked word that is not empty once
\* stripped.
EligibleForQuizApi(text) ==
    Cardinality({ i \in DOMAIN SentencesOf(text) :
        /\ Len(SentencesOf(text)[i]) > 40
        /\ Len(sentenceItemsApi(SentencesOf(text)[i])) = 1 })

\* C7: generateQuiz returns at most N items and raises no error; with fewer
\* eligible sentences than N it returns one item per eligible sentence.
QuizAtMostN ==
    (HeuristicDone("quiz") /\ IsNumber(resp.handed)) =>
        /\ resp.status = 200
        /\ AtMost(Len(resp.quiz), resp.handed)
        /\ (impl = "api" /\ LengthLT(EligibleForQuizApi(req.text.s), resp.handed)) =>
              Len(resp.quiz) = EligibleForQuizApi(req.text.s)

\* C8: generateFlashcards returns at most N cards (none when N is negative or
\* not a number).
CardsAtMostN ==
    HeuristicDone("flashcards") =>
        IF IsNumber(resp.handed) THEN AtMost(Len(resp.cards), resp.handed)
        ELSE Len(resp.cards) = 0

\* C8 witness: for the count 1.5 the loops of routes/api.js collect two cards
\* and one is returned.
CardsAtMostNReached ==
    /\ HeuristicDone("flashcards")
    /\ impl = "api"
    /\ resp.handed = Half(3)
    /\ Len(lineLoopApi(trimmedNonEmpty(splitNewlines(req.text.s)), 1, <<>>, resp.handed)) = 2
    /\ Len(resp.cards) = 1

\* C9: every card generateFlashcards returns has a non-empty answer, also for a
\* segment where nothing follows the colon or the ' is ' separator.
CardAnswersNonEmpty ==
    HeuristicDone("flashcards") =>
        \A card \in Cards : Len(card.answer) > 0

\* The request is one for a summary, flashcards or a quiz, and its text is absent
\* from the body or is the empty string.
TextMissingOrEmpty ==
    req.endpoint \in Endpoints /\ (req.text = Undefined \/ req.text = Str(<<>>))

\* The request is one for a summary, flashcards or a quiz, and has a text.
TextPresent ==
    req.endpoint \in Endpoints /\ req.text # Undefined /\ req.text # Str(<<>>)

\* C10: a request whose text is missing or empty is answered 400, a status that
\* no other outcome uses, and neither a heuristic generator nor a remote AI call
\* has been invoked for it.
MissingTextRejected ==
    /\ (pc \in {"awaitAI", "done"} /\ TextMissingOrEmpty) =>
          /\ pc = "done"
          /\ resp.status = 400
          /\ heuristicCalls = 0
          /\ remoteCalls = 0
    /\ (pc = "done" /\ TextPresent) => resp.status \in {200, 500}

\* C10 witness: an empty text has been answered 400 by a server whose
\* credentials select the AI path.
MissingTextRejectedReached ==
    /\ pc = "done"
    /\ req.text = Str(<<>>)
    /\ useAI
    /\ resp.status = 400

\* The fixed upper bound of the endpoint's artifact.
Limit(endpoint) ==
    CASE endpoint = "summarize"  -> MaxSentences
      [] endpoint = "flashcards" -> MaxCards
      [] endpoint = "quiz"       -> MaxQuestions

\* C11: the count a handler hands to its generator, AI delegate or heuristic, is
\* never a number above the fixed upper bound of the endpoint's artifact.
CountClamped ==
    (pc \in {"awaitAI", "done"} /\ resp.handed # None) =>
        ~(resp.handed.t = "num" /\ resp.handed.h > 2 * Limit(req.endpoint))

\* C12: with neither OPENAI_API_KEY nor OPENROUTER_API_KEY configured, a request
\* with non-empty text is answered 200 from the heuristic generator of its
\* endpoint, without any remote call.
NoKeyHeuristic ==
    (/\ pc = "done"
     /\ ~env.OPENAI_API_KEY /\ ~env.OPENROUTER_API_KEY
     /\ TextPresent) =>
        /\ resp.status = 200
        /\ resp.source = "heuristic"
        /\ heuristicCalls = 1
        /\ remoteCalls = 0

\* C13: in the routes/api.js router a request with text is routed to the AI
\* delegate exactly when services/ai.js has a provider configured (OpenRouter or
\* OpenAI), and to the heuristic generator only when it has none.
DispatchMatchesProvider ==
    (impl = "api" /\ pc \in {"awaitAI", "done"} /\ TextPresent) =>
        /\ (remoteCalls > 0) <=> clientConfigured
        /\ (heuristicCalls > 0) => ~clientConfigured

\* C14: once a remote completion call of a request has failed, no further
\* remote call has been issued for it, no heuristic generator has run, and the
\* response is 500 with no summary, cards or quiz.
FailureEndsRequest ==
    ai.failedAt > 0 =>
        /\ pc = "done"
        /\ remoteCalls = ai.failedAt
        /\ heuristicCalls = 0
        /\ resp.status = 500
        /\ resp.source = "none"
        /\ resp.summary = <<>> /\ resp.sentences = <<>>
        /\ resp.cards = <<>> /\ resp.quiz = <<>>

\* C14 witness: the second chunk's call of a two-chunk summary failed, after
\* the first chunk's call had returned; the call that combines the partial
\* summaries was not made and the client got 500.
FailureEndsRequestReached ==
    /\ pc = "done"
    /\ req.endpoint = "summarize"
    /\ ai.chunks = 2
    /\ Len(ai.partials) = 1
    /\ ai.failedAt = 2
    /\ remoteCalls = 2
    /\ resp.status = 500

\* C15: whenever aiFlashcards or aiQuiz has handled a completion whose content
\* is not an object with an array field (unparseable text, null, a string, a
\* number, ...), in either version of services/ai.js, it has returned the empty
\* collection and thrown nothing: the handler answers 200 with no cards and no
\* quiz.
MalformedCompletionRecovered ==
    /\ ai.phase # "threw"
    /\ (ai.phase = "returned" /\ ai.malformed) =>
          /\ resp.status = 200
          /\ resp.cards = <<>>
          /\ resp.quiz = <<>>

\* C16: in routes/api.js and index.js an upload that multer rejects for exceeding
\* the file-size limit is answered 413; an upload that fails otherwise (another
\* error of multer, no file under the field, an unsupported type, a document
\* that cannot be parsed) is answered 400; no failed upload returns text.
UploadFailureStatus ==
    (pc = "done" /\ req.endpoint = "upload" /\ impl \in {"api", "index"}) =>
        LET err  == req.upload.err
            file == req.upload.file
            document ==
                \/ file.mimetype \in MimeTypes \ {"text/plain", "application/octet-stream"}
                \/ file.ext \in {"pdf", "docx"}
            plain == file.mimetype = "text/plain" \/ file.ext \in {"txt", "md"}
            failed ==
                \/ err # "none"
                \/ file = NoFile
                \/ ~document /\ ~plain
                \/ document /\ ~file.readable
        IN  /\ err = "LIMIT_FILE_SIZE" => resp.status = 413
            /\ (failed /\ err # "LIMIT_FILE_SIZE") => resp.status = 400
            /\ failed => resp.text = <<>>
            /\ ~failed => resp.status = 200

\* C16 witness: routes/api.js or index.js has answered 413 to an upload over the
\* file-size limit.
UploadTooLargeReached ==
    /\ pc = "done"
    /\ req.endpoint = "upload"
    /\ impl \in {"api", "index"}
    /\ req.upload.err = "LIMIT_FILE_SIZE"
    /\ resp.status = 413

\* The score textSummary gives the i-th of the sentences it keeps.
ScoreOf(sentences, i) ==
    IF impl = "api" THEN scoreApi(sentences, i) ELSE scoreIndex(sentences, i)

ShortSentencesDiscarded ==
    HeuristicDone("summarize") =>
        LET long == SelectSeq(SentencesOf(Collapsed(req.text.s)), LAMBDA s : Len(s) > 20)
        IN  /\ \A r \in DOMAIN resp.sentences : Len(resp.sentences[r]) > 20
            /\ LengthLE(Len(long), resp.handed) => resp.sentences = long

\* The text before the colon and the text after it in the scenario's sentence.
PhotosynthesisTerm ==
    <<"P","h","o","t","o","s","y","n","t","h","e","s","i","s">>

PlantsConvert ==
    <<"p","l","a","n","t","s"," ","c","o","n","v","e","r","t"," ","l","i","g","h","t"," ","i","n","t","o"," ","e","n","e","r","g","y",".">>

\* C19: for the text "Photosynthesis: plants convert light into energy." and
\* count 1, generateFlashcards returns one card; its question contains
\* "Photosynthesis" and its answer contains "plants convert light into energy."
\* with the final period.
PhotosynthesisCard ==
    (/\ HeuristicDone("flashcards")
     /\ req.text.s = Photosynthesis
     /\ resp.handed = Whole(1)) =>
        /\ Len(resp.cards) = 1
        /\ includes(resp.cards[1].question, PhotosynthesisTerm)
        /\ includes(resp.cards[1].answer, PlantsConvert)

\* C20: the answer of every card generateFlashcards returns is no longer than
\* the longest excerpt the implementations cut (200 characters and the
\* ellipsis), however long the line it comes from.
CardAnswersCapped ==
    HeuristicDone("flashcards") =>
        \A card \in Cards : Len(card.answer) <= ExcerptLen + 1

\* The question of the cards routes/api.js builds from windows of the text.
ExplainConcept ==
    <<"E","x","p","l","a","i","n"," ","t","h","e"," ","f","o","l","l","o","w","i","n","g"," ","c","o","n","c","e","p","t",":">>

\* The lines of the text: its stretches between newlines, trimmed.
LinesOf(text) ==
    LET lines == trimmedNonEmpty(splitNewlines(text))
    IN  { lines[i] : i \in DOMAIN lines }

\* C21: in routes/api.js the answer of a card built from a line either is the
\* line unchanged, or is a proper prefix of the line followed by the ellipsis
\* marker: the marker is there exactly when the line was truncated.
EllipsisIffTruncated ==
    (HeuristicDone("flashcards") /\ impl = "api") =>
        \A card \in Cards :
            card.question # ExplainConcept =>
                \E l \in LinesOf(req.text.s) :
                    \/ card.answer = l
                    \/ \E k \in 0..(Len(l) - 1) : card.answer = SubSeq(l, 1, k) \o Ellipsis

\* The question of the cards index.js builds from windows of the text.
ExplainSnippet ==
    <<"E","x","p","l","a","i","n"," ","t","h","i","s"," ","s","n","i","p","p","e","t",":">>

\* The eligible segments of the text in source order: trimmed lines of at least
\* 20 characters (routes/api.js), trimmed stretches between newlines and periods
\* of at least 30 characters (index.js).
EligibleSegments(text) ==
    IF impl = "api"
    THEN SelectSeq(trimmedNonEmpty(splitNewlines(text)), LAMBDA l : Len(l) >= 20)
    ELSE SelectSeq(trimmedNonEmpty(splitNewlineOrDot(text)), LAMBDA l : Len(l) >= 30)

\* An answer without the ellipsis marker at its end, when it has one.
WithoutEllipsis(a) ==
    IF Len(a) > 0 /\ <<a[Len(a)]>> = Ellipsis THEN SubSeq(a, 1, Len(a) - 1) ELSE a

\* C22: every eligible segment yields a card until N cards are collected: for a
\* whole count N >= 0, the first min(N, number of eligible segments) cards are
\* cards of segments, not of windows of the text, the r-th of them built from
\* the r-th eligible segment (its answer is a part of that segment).
EverySegmentYieldsCard ==
    (/\ HeuristicDone("flashcards")
     /\ IsNumber(resp.handed)
     /\ resp.handed.h >= 0 /\ resp.handed.h % 2 = 0) =>
        LET segs == EligibleSegments(req.text.s)
            want == Min(resp.handed.h \div 2, Len(segs))
        IN  /\ Len(resp.cards) >= want
            /\ \A r \in 1..want :
                  /\ resp.cards[r].question \notin {ExplainConcept, ExplainSnippet}
                  /\ includes(segs[r], WithoutEllipsis(resp.cards[r].answer))

\* The window of the text a backfilled card of routes/api.js shows for an offset.
WindowAt(text, start) == slice(text, start, start + 180) \o Ellipsis

\* C23: when routes/api.js backfills, for a non-empty text and a positive whole
\* count N exactly N cards are returned, every backfilled card shows a window
\* of the text that starts inside the text, and of two backfilled cards that
\* follow each other the later one starts at a later offset.
BackfillIncreasingOffsets ==
    (/\ HeuristicDone("flashcards") /\ impl = "api"
     /\ IsNumber(resp.handed)
     /\ resp.handed.h > 0 /\ resp.handed.h % 2 = 0) =>
        LET text  == req.text.s
            cards == resp.cards
            Backfilled(r) == cards[r].question = ExplainConcept
        IN  /\ Len(cards) = resp.handed.h \div 2
            /\ \A r \in 1..Len(cards) :
                  Backfilled(r) =>
                      \E a \in 0..(Len(text) - 1) : cards[r].answer = WindowAt(text, a)
            /\ \A r \in 1..(Len(cards) - 1) :
                  (Backfilled(r) /\ Backfilled(r + 1)) =>
                      \E a, b \in 0..(Len(text) - 1) :
                          /\ a < b
                          /\ cards[r].answer = WindowAt(text, a)
                          /\ cards[r + 1].answer = WindowAt(text, b)

\* C24: the answer of every quiz item is non-empty (so a sentence whose masked
\* token is empty after stripping gives no item), has only letters, digits and
\* hyphens, and is a token of a sentence of the text with the other characters
\* stripped; the question has the blank at that token's place inside the token
\* list and the sentence's other tokens, in order, everywhere else.
QuizAnswerIsMaskedToken ==
    HeuristicDone("quiz") =>
        \A item \in Items :
            /\ Len(item.answer) > 0
            /\ \A k \in 1..Len(item.answer) : item.answer[k] \in AlnumHyphen
            /\ \E s \in Range(splitSentences(req.text.s)) :
                  LET words == splitWhitespace(s)
                      shown == splitWhitespace(item.question)
                  IN  /\ Len(shown) = Len(words)
                      /\ \E i \in 1..Len(words) :
                            /\ shown[i] = Blank
                            /\ item.answer = SelectSeq(words[i], LAMBDA c : c \in AlnumHyphen)
                            /\ [shown EXCEPT ![i] = words[i]] = words

\* A quiz of routes/api.js for two sentences, the first of which has "&" as
\* its masked token and gives no item, the second of which gives one.
QuizTokenSkippedReached ==
    /\ HeuristicDone("quiz") /\ impl = "api"
    /\ req.text.s = join(<<PlantsNeed, ConceptChapter>>, Space)
    /\ Len(resp.quiz) = 1

\* C25: without a credential, a summarize, flashcards or quiz request whose
\* text passes the handler's test (it is truthy) is never answered 500.
HeuristicNeverFails ==
    (/\ pc = "done" /\ impl = "api"
     /\ req.endpoint \in Endpoints
     /\ ~env.OPENAI_API_KEY
     /\ req.text \notin {Undefined, Str(<<>>), Whole(0)}) =>
        resp.status # 500

\* C26: the text of an upload's response is the extracted text's first 20000
\* characters (all of it when it has fewer) and textLength is the length of the
\* whole extracted text: textLength is never less than the length of the text
\* returned, and equals it exactly when the extracted text has at most 20000
\* characters.
UploadTextIsPrefix ==
    (pc = "done" /\ req.endpoint = "upload" /\ resp.status = 200) =>
        LET extracted == extractTextFromFile(req.upload.file).text
        IN  /\ resp.text = SubSeq(extracted, 1, Min(Len(extracted), 20000))
            /\ resp.textLength = Len(extracted)
            /\ resp.textLength >= Len(resp.text)
            /\ (resp.textLength = Len(resp.text)) <=> (Len(extracted) <= 20000)

\* An upload whose extracted text is longer than the text returned.
UploadTruncatedReached ==
    /\ pc = "done" /\ req.endpoint = "upload" /\ resp.status = 200
    /\ Len(resp.text) = 20000
    /\ resp.textLength = 20001

\* C27: aiSummarize cuts a text into consecutive chunks of at most 6000
\* characters that together are the text, and calls the provider for one chunk
\* at a time in order: while it works on the chunks the calls made are one more
\* than the partial summaries obtained.  With one chunk it returns that chunk's
\* summary after that one call; with c > 1 chunks it makes the combining call
\* after the c partial summaries, c + 1 calls in all, and returns that call's
\* content, or the partial summaries joined by newlines when it is empty.
SummarizeCallsPerChunk ==
    (req.endpoint = "summarize" /\ ai.phase # "none" /\ req.text.t = "str") =>
        LET text   == req.text.s
            chunks == chunkText(text, 6000)
            c      == Len(chunks)
            p      == Len(ai.partials)
        IN  /\ \A i \in 1..c : Len(chunks[i]) \in 1..6000
            /\ join(chunks, <<>>) = text
            /\ ai.chunks = c
            /\ ai.phase = "chunk" => p < c /\ remoteCalls = p + 1
            /\ ai.phase = "combine" => c > 1 /\ p = c /\ remoteCalls = c + 1
            /\ ai.phase = "failed" => remoteCalls = p + 1 /\ p <= c
            /\ ai.phase = "returned" =>
                  /\ pc = "done" /\ resp.status = 200 /\ p = c
                  /\ IF c = 1
                     THEN remoteCalls = 1 /\ resp.summary = ai.partials[1]
                     ELSE /\ remoteCalls = c + 1
                          /\ resp.summary = IF Len(ai.final) > 0 THEN ai.final
                                            ELSE join(ai.partials, <<NL>>)

\* A summary of two chunks whose combining call returned no content: the two
\* partial summaries are returned, joined by a newline.
SummaryOfPartialsReached ==
    /\ pc = "done" /\ req.endpoint = "summarize"
    /\ ai.chunks = 2 /\ remoteCalls = 3
    /\ ai.final = <<>>
    /\ Len(ai.partials[1]) > 0 /\ Len(ai.partials[2]) > 0
    /\ resp.summary = ai.partials[1] \o <<NL>> \o ai.partials[2]

\* C28: whenever a handler of index.js has selected the AI path for a request
\* with a text, a credential being in the environment when the request is
\* handled, the client of services/ai.js was initialised and the delegate has
\* issued a remote call: the request did not fail for want of a provider.
ClientReadyWhenSelected ==
    (/\ impl = "index" /\ pc \in {"awaitAI", "done"}
     /\ req.endpoint \in Endpoints
     /\ req.text \notin {Undefined, Str(<<>>)}
     /\ (env.OPENAI_API_KEY \/ env.OPENROUTER_API_KEY)) =>
        remoteCalls >= 1

\* What holds of a run of handleGenerate at every moment: the requests sent are
\* the uploads of the files selected at the click, in their order, one more than
\* the uploads answered while uploading, then the tool's request, which is
\* sent only when every file's upload has been answered ok; once an upload has
\* failed it is the last request sent, the error is set and loading is false.
OneUploadAtATime ==
    LET n == Len(run.files)
    IN  /\ Len(fetched) <= n + 1
        /\ \A k \in 1..Len(fetched) :
              IF k <= n THEN fetched[k] = UploadOf(run.files[k])
              ELSE /\ fetched[k] = ToolRequest(run.tool)
                   /\ run.sources = run.files
        /\ run.at = "upload" => loading /\ Len(fetched) = Len(run.sources) + 1
        /\ run.at = "tool" => loading /\ Len(fetched) = n + 1
        /\ run.failedAt > 0 =>
              /\ Len(fetched) = run.failedAt
              /\ run.failedAt <= n
              /\ error # Null
              /\ ~loading

\* C29: handleGenerate uploads the selected files one at a time in selection
\* order and requests the tool's endpoint only after every upload succeeded;
\* a failed upload is followed by no other request and sets the error; and in
\* every outcome loading is eventually false again.
UploadsThenTool == []OneUploadAtATime /\ (loading ~> ~loading)

\* The upload of the second of two files has failed: two uploads were sent, in
\* the order of selection, and no request of the tool.
SecondUploadFailedReached ==
    /\ Len(run.files) = 2 /\ run.files[1] # run.files[2]
    /\ run.failedAt = 2
    /\ fetched = <<UploadOf(run.files[1]), UploadOf(run.files[2])>>
    /\ error # Null /\ ~loading

\* C30: in every state of the page at most one of summary, flashcards and quiz
\* is not null, all three are null when error is not null, and the one that is
\* not null is the result of the tool that was selected when Generate was
\* clicked.
OneResultOfClickedTool ==
    /\ Cardinality({ r \in {<<"summary", summary>>, <<"flashcards", flashcards>>,
                             <<"mcqs", quiz>>} : r[2] # Null }) <= 1
    /\ error # Null => summary = Null /\ flashcards = Null /\ quiz = Null
    /\ summary # Null => run.tool = "summary"
    /\ flashcards # Null => run.tool = "flashcards"
    /\ quiz # Null => run.tool = "mcqs"

\* The summary asked for is shown although the user has chosen another tool
\* and removed the files while the requests were awaited.
ResultOfClickedToolReached ==
    /\ summary # Null
    /\ selectedTool = "mcqs"
    /\ selectedFiles = <<>>
    /\ ~loading

====
